---------------------------- MODULE Spec2Model ----------------------------
(***************************************************************************)
(* InfraSnitch: the report logger (report_logger.py) and the NUMA checker  *)
(* (InfraMathDef.py), modelled from the source.                            *)
(*                                                                         *)
(* Text is a sequence of one-character strings.  The characters of the     *)
(* three markers are named by their code points: "u2705" is the success    *)
(* marker, "u26A0" followed by "uFE0F" the warning marker, "u274C" the     *)
(* error marker.                                                           *)
(***************************************************************************)
EXTENDS Integers, Sequences, FiniteSets, TLC

VARIABLES
    \* ---- ReportLogger ----
    buffer,      \* self.buffer (StringIO): the text written so far
    console,     \* what self.console received, one entry per write call
    md_file,     \* content of the file written by export, or NoFile
    json_file,   \* document written by export_json, or NoFile
    summary,     \* what the last print_summary printed, or NoSummary
    last_call,   \* the ReportLogger method that ran last
    prev_call,   \* the ReportLogger method that ran before it
    \* ---- NumaChecker ----
    pc,            \* where the caller of the checker stands
    out,           \* the lines handed to self.out since construction
    before,        \* Len(out) when the check that ran last was entered
    called,        \* the check that ran last
    raised,        \* the exception that left the check that ran last
    schedulers,    \* what get_scheduler_layout did in that check
    memory_nodes,  \* what get_memory_nodes did in that check
    probe,         \* what the other sources (sp_configure, host tools) did
    calls          \* the checks entered so far, each with the lines it emitted

logger_vars == <<buffer, console, md_file, json_file, summary, last_call, prev_call>>

checker_vars == <<pc, out, before, called, raised, schedulers, memory_nodes, probe,
                  calls>>

vars == <<buffer, console, md_file, json_file, summary, last_call, prev_call,
          pc, out, before, called, raised, schedulers, memory_nodes, probe, calls>>

-----------------------------------------------------------------------------
(* Bounds *)

MaxWrites == 2
MaxSchedulers == 3
MaxMemoryNodes == 2

-----------------------------------------------------------------------------
(* Text helpers *)

NL == "\n"
CR == "\r"
BS == "\\"
QUOTE == "\""

SuccessMarker == <<"u2705">>
WarningMarker == <<"u26A0", "uFE0F">>
ErrorMarker == <<"u274C">>

NonAscii == {"u2705", "u26A0", "uFE0F", "u274C"}

NoFile == [exists |-> FALSE, content |-> <<>>]
NoSummary == [printed |-> FALSE, successes |-> 0, warnings |-> 0,
              highlighted |-> <<>>, has_issues |-> FALSE]

\* The messages handed to write: empty, plain, with a leading newline (as the
\* checker's own headers have), with an embedded newline, with each marker,
\* with both kinds of marker, with a bare U+26A0, with characters JSON escapes,
\* and one of three lines that all carry a warning or an error marker.
Messages ==
    { <<>>,
      <<"a">>,
      <<NL, "a">>,
      <<"a", NL, "n">>,
      <<"a", CR, NL, "a">>,
      <<"u2705", "a">>,
      <<"u26A0", "uFE0F", "a">>,
      <<"u274C">>,
      <<"u2705", "u274C">>,
      <<"u26A0", "a">>,
      <<BS, "n", QUOTE>>,
      <<"u274C", "a", NL, "u26A0", "uFE0F", NL, "u2705", "u274C">> }

\* Python: marker in line
Contains(line, marker) ==
    \E i \in 1..(Len(line) - Len(marker) + 1) :
        SubSeq(line, i, i + Len(marker) - 1) = marker

\* Python str.splitlines on the characters of the model: \n, \r and \r\n end
\* a line, and a trailing line end adds no empty line.
LineBreaks == {NL, CR}

RECURSIVE SplitAcc(_, _, _)
SplitAcc(s, cur, acc) ==
    IF s = <<>> THEN (IF cur = <<>> THEN acc ELSE Append(acc, cur))
    ELSE IF Head(s) = CR /\ Len(s) >= 2 /\ s[2] = NL
         THEN SplitAcc(SubSeq(s, 3, Len(s)), <<>>, Append(acc, cur))
    ELSE IF Head(s) \in LineBreaks
         THEN SplitAcc(Tail(s), <<>>, Append(acc, cur))
    ELSE SplitAcc(Tail(s), Append(cur, Head(s)), acc)

splitlines(s) == SplitAcc(s, <<>>, <<>>)

\* json.dump of one string (ensure_ascii): the characters between the quotes.
json_escape_char(c) ==
    IF c = QUOTE THEN <<BS, QUOTE>>
    ELSE IF c = BS THEN <<BS, BS>>
    ELSE IF c = NL THEN <<BS, "n">>
    ELSE IF c = CR THEN <<BS, "r">>
    ELSE IF c \in NonAscii THEN <<BS, "u", c>>
    ELSE <<c>>

RECURSIVE json_escape(_)
json_escape(s) ==
    IF s = <<>> THEN <<>> ELSE json_escape_char(Head(s)) \o json_escape(Tail(s))

\* json.load of one string: the inverse reading of the escapes.
RECURSIVE json_unescape(_)
json_unescape(e) ==
    IF e = <<>> THEN <<>>
    ELSE IF Head(e) # BS THEN <<Head(e)>> \o json_unescape(Tail(e))
    ELSE IF e[2] = "n" THEN <<NL>> \o json_unescape(SubSeq(e, 3, Len(e)))
    ELSE IF e[2] = "r" THEN <<CR>> \o json_unescape(SubSeq(e, 3, Len(e)))
    ELSE IF e[2] = "u" THEN <<e[3]>> \o json_unescape(SubSeq(e, 4, Len(e)))
    ELSE <<e[2]>> \o json_unescape(SubSeq(e, 3, Len(e)))

json_dump(report) == [report |-> [i \in 1..Len(report.report) |-> json_escape(report.report[i])]]

json_load(doc) == [report |-> [i \in 1..Len(doc.report) |-> json_unescape(doc.report[i])]]

\* warnings[:5]
Take(s, n) == SubSeq(s, 1, IF Len(s) < n THEN Len(s) ELSE n)

IsWarning(line) == Contains(line, WarningMarker) \/ Contains(line, ErrorMarker)
IsSuccess(line) == Contains(line, SuccessMarker)

\* print_summary with the two classes made exclusive: a line with a warning
\* or error marker is not counted as a success.
summary_of_exclusive(text) ==
    LET lines == splitlines(text)
        warnings == SelectSeq(lines, IsWarning)
        successes == SelectSeq(lines, LAMBDA l : IsSuccess(l) /\ ~IsWarning(l))
    IN  [printed |-> TRUE,
         successes |-> Len(successes),
         warnings |-> Len(warnings),
         highlighted |-> IF warnings # <<>> THEN Take(warnings, 5) ELSE <<>>,
         has_issues |-> warnings # <<>>]

\* What print_summary prints for a buffer content.
summary_of(text) ==
    LET lines == splitlines(text)
        warnings == SelectSeq(lines, IsWarning)
        successes == SelectSeq(lines, IsSuccess)
    IN  [printed |-> TRUE,
         successes |-> Len(successes),
         warnings |-> Len(warnings),
         highlighted |-> IF warnings # <<>> THEN Take(warnings, 5) ELSE <<>>,
         has_issues |-> warnings # <<>>]

-----------------------------------------------------------------------------
(* ReportLogger *)

LoggerInit ==
    /\ buffer = <<>>
    /\ console = <<>>
    /\ md_file = NoFile
    /\ json_file = NoFile
    /\ summary = NoSummary
    /\ last_call = "__init__"
    /\ prev_call = "__init__"
    /\ pc = "no_checker"
    /\ out = <<>>
    /\ before = 0
    /\ called = "none"
    /\ raised = "none"
    /\ schedulers = [fetched |-> FALSE, raises |-> FALSE, rows |-> <<>>]
    /\ memory_nodes = [fetched |-> FALSE, raises |-> FALSE, rows |-> <<>>]
    /\ probe = [kind |-> "none"]
    /\ calls = <<>>

write_prepends(msg) ==
    /\ Len(console) < MaxWrites
    /\ console' = Append(console, msg)
    /\ buffer' = msg \o <<NL>> \o buffer
    /\ last_call' = "write"
    /\ prev_call' = last_call
    /\ UNCHANGED <<md_file, json_file, summary, checker_vars>>

write(msg) ==
    /\ Len(console) < MaxWrites
    /\ console' = Append(console, msg)
    /\ buffer' = buffer \o msg \o <<NL>>
    /\ last_call' = "write"
    /\ prev_call' = last_call
    /\ UNCHANGED <<md_file, json_file, summary, checker_vars>>

export ==
    /\ md_file' = [exists |-> TRUE, content |-> buffer]
    /\ last_call' = "export"
    /\ prev_call' = last_call
    /\ UNCHANGED <<buffer, console, json_file, summary, checker_vars>>

export_json ==
    /\ json_file' = [exists |-> TRUE, content |-> json_dump([report |-> splitlines(buffer)])]
    /\ last_call' = "export_json"
    /\ prev_call' = last_call
    /\ UNCHANGED <<buffer, console, md_file, summary, checker_vars>>

print_summary_appends ==
    /\ summary' = summary_of(buffer)
    /\ buffer' = buffer \o <<"a", NL>>
    /\ last_call' = "print_summary"
    /\ prev_call' = last_call
    /\ UNCHANGED <<console, md_file, json_file, checker_vars>>

print_summary ==
    /\ summary' = summary_of(buffer)
    /\ last_call' = "print_summary"
    /\ prev_call' = last_call
    /\ UNCHANGED <<buffer, console, md_file, json_file, checker_vars>>

LoggerWrite == \E msg \in Messages : write(msg)

LoggerNext ==
    \/ LoggerWrite
    \/ export
    \/ export_json
    \/ print_summary

SpecLogger == LoggerInit /\ [][LoggerNext]_vars

-----------------------------------------------------------------------------
(* NumaChecker: lines, records and sources *)

\* One line handed to self.out.  marker is the symbol the message carries:
\* "ok" for the check mark, "warn" for the warning sign, "error" for the
\* cross, "none" for any other message.
Line(marker, text, args) == [marker |-> marker, text |-> text, args |-> args]

Nodes == {0, 1}
NoParent == -1

\* query_dict zips the cursor's column names with each row, so a row exposes
\* parent_node_id only when the source delivered a value for it.
SchedulerRow(cpu, online, status, parent) ==
    IF parent = NoParent
    THEN [cpu_id |-> cpu, is_online |-> online, status |-> status]
    ELSE [cpu_id |-> cpu, is_online |-> online, status |-> status,
          parent_node_id |-> parent]

Statuses == {"VISIBLE ONLINE", "HIDDEN ONLINE"}

\* The results of the scheduler query: cpu_id is unique within one fetch.
SchedulerRows(n) ==
    { r \in [1..n -> [is_online : {0, 1}, status : Statuses,
                      parent : Nodes \cup {NoParent}]] : TRUE }

SchedulerSeq(f) ==
    [i \in DOMAIN f |-> SchedulerRow(i - 1, f[i].is_online, f[i].status, f[i].parent)]

SchedulerResults(max) ==
    UNION { { SchedulerSeq(f) : f \in SchedulerRows(n) } : n \in 0..max }

MemoryNodeRow(id) == [memory_node_id |-> id]

MemoryNodeResults(max) ==
    UNION { { [i \in 1..n |-> MemoryNodeRow(f[i])] : f \in [1..n -> Nodes] } : n \in 0..max }

\* A fetch through query_dict either raises or returns the rows.
Raises == [fetched |-> TRUE, raises |-> TRUE, rows |-> <<>>]
Returns(rows) == [fetched |-> TRUE, raises |-> FALSE, rows |-> rows]
NotFetched == [fetched |-> FALSE, raises |-> FALSE, rows |-> <<>>]

SchedulerFetches(max) == {Raises} \cup { Returns(r) : r \in SchedulerResults(max) }
MemoryNodeFetches(max) == {Raises} \cup { Returns(r) : r \in MemoryNodeResults(max) }

\* 'parent_node_id' in row
HasParent(row) == "parent_node_id" \in DOMAIN row

\* sorted(s) for a set of integers
RECURSIVE sorted(_)
sorted(s) ==
    IF s = {} THEN <<>>
    ELSE LET m == CHOOSE x \in s : \A y \in s : x <= y
         IN  <<m>> \o sorted(s \ {m})

\* What a check did: the lines it emitted and the exception that left it.
Done(lines) == [lines |-> lines, raised |-> "none"]
Raise(lines, exc) == [lines |-> lines, raised |-> exc]

-----------------------------------------------------------------------------
(* NumaChecker.validate_numa_layout *)

\* The dictionary the check builds: nothing ever stores into it.
node_cpu_map_of(rows) == [n \in {} |-> 0]

\* The if that tests is_online stands after the loop: it sees the values the
\* last row left in cpu and is_online.
offline_schedulers_of(rows) ==
    IF rows[Len(rows)].is_online = 0 THEN <<rows[Len(rows)].cpu_id>> ELSE <<>>

balance_lines(node_cpu_map) ==
    LET cpu_counts == { node_cpu_map[n] : n \in DOMAIN node_cpu_map }
    IN  IF Cardinality(cpu_counts) > 1
        THEN <<Line("warn", "NUMA nodes have unbalanced CPU counts", <<>>)>>
             \o [i \in 1..Cardinality(DOMAIN node_cpu_map) |->
                    Line("none", "Node schedulers",
                         <<sorted(DOMAIN node_cpu_map)[i],
                           node_cpu_map[sorted(DOMAIN node_cpu_map)[i]]>>)]
        ELSE <<Line("ok", "NUMA CPU distribution appears balanced", <<>>)>>

offline_lines(offline_schedulers) ==
    IF offline_schedulers # <<>>
    THEN <<Line("warn", "Offline schedulers detected", offline_schedulers)>>
    ELSE <<Line("ok", "All schedulers are online", <<>>)>>

validate_numa_layout(sched) ==
    IF sched.raises THEN Raise(<<>>, "Error")
    ELSE IF sched.rows = <<>> THEN Raise(<<>>, "UnboundLocalError")
    ELSE Done(balance_lines(node_cpu_map_of(sched.rows))
              \o offline_lines(offline_schedulers_of(sched.rows)))

-----------------------------------------------------------------------------
(* NumaChecker.validate_memory_alignment *)

\* Lines 143-159, reached only when the loop over the schedulers ends without
\* returning.  Each for loop carries the else branch, so the ok line follows
\* the nodes whether or not the difference is empty.
alignment_report(scheduler_node_ids, memory_node_ids) ==
    LET nodes_missing_memory == scheduler_node_ids \ memory_node_ids
        memory_without_cpus == memory_node_ids \ scheduler_node_ids
        NodeLines(s) == [i \in 1..Cardinality(s) |-> Line("none", "Node", <<sorted(s)[i]>>)]
    IN  (IF nodes_missing_memory # {}
         THEN <<Line("warn", "NUMA nodes with schedulers but no memory assigned", <<>>)>>
         ELSE <<>>)
        \o NodeLines(nodes_missing_memory)
        \o <<Line("ok", "All scheduler nodes have memory assigned", <<>>)>>
        \o (IF memory_without_cpus # {}
            THEN <<Line("warn", "Memory nodes present without schedulers", <<>>)>>
            ELSE <<>>)
        \o NodeLines(memory_without_cpus)
        \o <<Line("ok", "All memory nodes align with scheduler nodes", <<>>)>>

\* The body of the loop ends in a return, so only the first row is looked at.
\* memory_node_ids is assigned inside the if of the loop body: with no row it
\* is unbound when line 143 reads it.
validate_memory_alignment(sched, memn) ==
    IF sched.raises \/ memn.raises THEN Raise(<<>>, "Error")
    ELSE IF sched.rows # <<>>
    THEN LET row == sched.rows[1]
             scheduler_node_ids == IF HasParent(row) THEN {row.parent_node_id} ELSE {}
         IN  IF scheduler_node_ids = {}
             THEN Done(<<Line("warn", "NUMA layout cannot be fully validated", <<>>)>>)
             ELSE Done(<<>>)
    ELSE LET scheduler_node_ids == {}
             memory_node_ids_bound == FALSE
             memory_node_ids == {}
         IN  IF ~memory_node_ids_bound THEN Raise(<<>>, "UnboundLocalError")
             ELSE Done(alignment_report(scheduler_node_ids, memory_node_ids))

-----------------------------------------------------------------------------
(* NumaChecker.recommend_maxdop *)

\* What the sp_configure calls of the try block did: raised, returned no row,
\* or returned a row whose second column is value.
MaxdopSources ==
    { [kind |-> "maxdop", raises |-> TRUE, has_row |-> FALSE, value |-> 0],
      [kind |-> "maxdop", raises |-> FALSE, has_row |-> FALSE, value |-> 0],
      [kind |-> "maxdop", raises |-> FALSE, has_row |-> TRUE, value |-> 0],
      [kind |-> "maxdop", raises |-> FALSE, has_row |-> TRUE, value |-> 8] }

\* current_value as the f-string shows it: <<>> stands for None.
current_value_of(src) ==
    IF ~src.raises /\ src.has_row THEN <<src.value>> ELSE <<>>

recommended_of(node_count) ==
    IF node_count = 1 THEN 8 ELSE node_count * 2

recommend_maxdop(src, sched) ==
    LET first == IF src.raises
                 THEN <<Line("error", "Unable to retrieve current maxDOP", <<>>)>>
                 ELSE <<>>
    IN  IF sched.raises THEN Raise(first, "Error")
        ELSE LET rows == sched.rows
                 exposed == rows # <<>> /\ HasParent(rows[1])
                 numa_nodes == { rows[i].parent_node_id :
                                   i \in { j \in DOMAIN rows : HasParent(rows[j]) } }
                 node_count == IF exposed THEN Cardinality(numa_nodes) ELSE 1
                 fallback == IF exposed THEN <<>>
                             ELSE <<Line("warn", "Falling back to 1 NUMA node", <<>>)>>
             IN  Done(first \o fallback \o
                      << Line("none", "Current maxDOP", current_value_of(src)),
                         Line("ok", "Recommended maxDOP", <<recommended_of(node_count)>>),
                         Line("none", "Reason", <<node_count>>) >>)

-----------------------------------------------------------------------------
(* NumaChecker.get_memory_config and validate_memory_config *)

\* Python's None where the model keeps an integer.
None == -1

\* What the connection did during get_memory_config: where an exception was
\* raised (if anywhere), and what each fetchone returned.
MinValues == {1000, 17500, 20000}
MaxValues == {60000, 70000, 70001}
TotalKbValues == {67108864, 71680512}
AvailableKbValues == {33554432, None}

MemorySources ==
    [kind : {"memory"},
     fail_at : {"none", "before_min", "after_min", "after_max", "at_close"},
     min_row : MinValues \cup {None},
     max_row : MaxValues \cup {None},
     has_mem_row : BOOLEAN,
     total_kb : TotalKbValues,
     available_kb : AvailableKbValues]

\* int(kb / 1024) for a non-negative kb
kb_to_mb(kb) == kb \div 1024

unable_line == Line("error", "Unable to retrieve memory configuration", <<>>)

\* The dictionary built so far when the function returns, and the error line
\* of the except branch.  row[1] / 1024 with row[1] None raises inside the
\* try, after total_physical_memory_mb was stored; cursor.close() is the last
\* call that can raise.
get_memory_config(src) ==
    LET m0 == [k \in {} |-> 0]
        m1 == [k \in {"min_server_memory_mb"} |-> src.min_row]
        m2 == [k \in {"min_server_memory_mb", "max_server_memory_mb"} |->
                 IF k = "min_server_memory_mb" THEN src.min_row ELSE src.max_row]
        m3 == [k \in DOMAIN m2 \cup {"total_physical_memory_mb"} |->
                 IF k \in DOMAIN m2 THEN m2[k] ELSE kb_to_mb(src.total_kb)]
        m4 == [k \in DOMAIN m3 \cup {"available_physical_memory_mb"} |->
                 IF k \in DOMAIN m3 THEN m3[k] ELSE kb_to_mb(src.available_kb)]
    IN  IF src.fail_at = "before_min" THEN [mem |-> m0, lines |-> <<unable_line>>]
        ELSE IF src.fail_at = "after_min" THEN [mem |-> m1, lines |-> <<unable_line>>]
        ELSE IF src.fail_at = "after_max" THEN [mem |-> m2, lines |-> <<unable_line>>]
        ELSE IF src.has_mem_row /\ src.available_kb = None
             THEN [mem |-> m3, lines |-> <<unable_line>>]
        ELSE [mem |-> IF src.has_mem_row THEN m4 ELSE m2,
              lines |-> IF src.fail_at = "at_close" THEN <<unable_line>> ELSE <<>>]

DetailKeys ==
    << "total_physical_memory_mb", "available_physical_memory_mb",
       "min_server_memory_mb", "max_server_memory_mb" >>

\* Lines 253-256: the detail lines up to the first key the dictionary lacks.
MissingKeys(mem) == { i \in 1..4 : DetailKeys[i] \notin DOMAIN mem }

FirstMissing(mem) ==
    IF MissingKeys(mem) = {} THEN 5
    ELSE CHOOSE i \in MissingKeys(mem) : \A j \in MissingKeys(mem) : i <= j

detail_lines(mem) ==
    [i \in 1..(FirstMissing(mem) - 1) |->
        Line("none", DetailKeys[i], <<mem[DetailKeys[i]]>>)]

\* Lines 262-270, with a chained second rule.
memory_rules_chained(total, min_mem, max_mem) ==
    IF max_mem = None THEN Raise(<<>>, "TypeError")
    ELSE IF max_mem > total
    THEN Done(<<Line("warn", "SQL Max Memory exceeds physical RAM", <<>>)>>)
    ELSE IF min_mem = None
    THEN Raise(<<Line("ok", "SQL Max Memory fits within physical RAM", <<>>)>>, "TypeError")
    ELSE Done(<<Line("ok", "SQL Max Memory fits within physical RAM", <<>>),
                IF 4 * min_mem < max_mem
                THEN Line("warn", "SQL Min Memory is set very low compared to Max", <<>>)
                ELSE Line("ok", "SQL Min/Max memory ratio looks reasonable", <<>>)>>)

\* Lines 262-270.  Comparing None with a number raises TypeError.
\* min_mem < max_mem * 0.25 on integers is 4 * min_mem < max_mem.
memory_rules(total, min_mem, max_mem) ==
    IF max_mem = None THEN Raise(<<>>, "TypeError")
    ELSE LET first == IF max_mem > total
                      THEN Line("warn", "SQL Max Memory exceeds physical RAM", <<>>)
                      ELSE Line("ok", "SQL Max Memory fits within physical RAM", <<>>)
         IN  IF min_mem = None THEN Raise(<<first>>, "TypeError")
             ELSE Done(<<first,
                         IF 4 * min_mem < max_mem
                         THEN Line("warn", "SQL Min Memory is set very low compared to Max", <<>>)
                         ELSE Line("ok", "SQL Min/Max memory ratio looks reasonable", <<>>)>>)

validate_memory_config(src) ==
    LET fetched == get_memory_config(src)
        mem == fetched.mem
        head == fetched.lines
                \o <<Line("none", "SQL Server Memory Configuration", <<>>)>>
                \o detail_lines(mem)
    IN  IF DOMAIN mem = {} THEN Done(fetched.lines)
        ELSE IF FirstMissing(mem) <= 4 THEN Raise(head, "KeyError")
        ELSE LET rules == memory_rules(mem["total_physical_memory_mb"],
                                       mem["min_server_memory_mb"],
                                       mem["max_server_memory_mb"])
             IN  [lines |-> head \o rules.lines, raised |-> rules.raised]

-----------------------------------------------------------------------------
(* NumaChecker.check_affinity_config *)

check_affinity_config(sched) ==
    IF sched.raises THEN Done(<<Line("error", "Error checking affinity config", <<>>)>>)
    ELSE LET rows == sched.rows
             total_visible_cpu_ids ==
                 { rows[i].cpu_id : i \in { j \in DOMAIN rows : rows[j].status = "VISIBLE ONLINE" } }
             total_online_cpu_ids ==
                 { rows[i].cpu_id : i \in { j \in DOMAIN rows : rows[j].is_online = 1 } }
         IN  IF total_visible_cpu_ids # total_online_cpu_ids
             THEN Done(<<Line("warn", "Affinity mask is likely applied", <<>>),
                         Line("none", "Missing CPUs",
                              sorted(total_online_cpu_ids \ total_visible_cpu_ids))>>)
             ELSE Done(<<Line("ok", "No CPU affinity mask detected", <<>>)>>)

-----------------------------------------------------------------------------
(* NumaChecker.get_system_specs *)

SpecsSources ==
    { [kind |-> "specs", raises |-> TRUE, has_row |-> FALSE],
      [kind |-> "specs", raises |-> FALSE, has_row |-> FALSE],
      [kind |-> "specs", raises |-> FALSE, has_row |-> TRUE] }

get_system_specs(src) ==
    IF src.raises
    THEN Done(<<Line("error", "Error retrieving system hardware configuration", <<>>)>>)
    ELSE IF ~src.has_row
    THEN Done(<<Line("error", "Could not retrieve system specs", <<>>)>>)
    ELSE Done(<<Line("none", "Server CPU & Memory Specs", <<>>),
                Line("none", "Logical CPUs", <<>>),
                Line("none", "Hyperthread Ratio", <<>>),
                Line("none", "Physical Memory", <<>>),
                Line("none", "SQL Server Start Time", <<>>),
                Line("none", "Virtual Machine Type", <<>>)>>)

-----------------------------------------------------------------------------
(* NumaChecker.check_socket_layout *)

\* The wmic output as the regular expressions see it: the socket designators
\* (numbered), each processor reporting 4 cores and 8 logical processors.
MaxSocketEntries == 3

SocketSources ==
    { [kind |-> "socket", raises |-> TRUE, sockets |-> <<>>] }
    \cup UNION { { [kind |-> "socket", raises |-> FALSE, sockets |-> f] :
                     f \in [1..n -> 0..2] } : n \in 0..MaxSocketEntries }

check_socket_layout(src) ==
    LET header == <<Line("none", "CPU Socket Layout (Host OS View)", <<>>)>>
        socket_count == Cardinality({ src.sockets[i] : i \in DOMAIN src.sockets })
        total_cores == 4 * Len(src.sockets)
        total_logical == 8 * Len(src.sockets)
        counts == << Line("none", "Sockets", <<socket_count>>),
                     Line("none", "Physical Cores", <<total_cores>>),
                     Line("none", "Logical Processors", <<total_logical>>) >>
    IN  IF src.raises
        THEN Done(header \o <<Line("error", "Error retrieving socket layout from OS", <<>>)>>)
        ELSE IF socket_count > 2
        THEN Done(header \o counts \o
                  << Line("warn", "Detected more than 2 sockets", <<>>),
                     Line("error", "SQL Server Standard will only use 2 sockets", <<>>),
                     Line("none", "Recommendation: fewer sockets with more cores", <<>>) >>)
        ELSE Done(header \o counts \o
                  <<Line("ok", "Socket count is within SQL Server Standard Edition limits", <<>>)>>)

-----------------------------------------------------------------------------
(* NumaChecker.detect_virtual_environment *)

\* The systeminfo output as the substring tests see it: the set of the
\* signatures it contains.
Signatures ==
    {"VMware", "Hyper-V", "Virtual Machine", "KVM", "QEMU", "Microsoft Corporation Virtual"}

VirtualSources ==
    { [kind |-> "virtual", raises |-> TRUE, output |-> {}] }
    \cup { [kind |-> "virtual", raises |-> FALSE, output |-> o] : o \in SUBSET Signatures }

detected_of(output) ==
    IF "VMware" \in output THEN "VMware"
    ELSE IF "Hyper-V" \in output \/ "Virtual Machine" \in output THEN "Hyper-V"
    ELSE IF "KVM" \in output \/ "QEMU" \in output THEN "KVM/QEMU"
    ELSE IF "Microsoft Corporation Virtual" \in output THEN "Azure (Hyper-V core)"
    ELSE "Bare Metal"

detect_virtual_environment(src) ==
    IF src.raises THEN Done(<<Line("error", "Error detecting virtual platform", <<>>)>>)
    ELSE Done(<<Line("none", detected_of(src.output), <<>>)>>
              \o (IF detected_of(src.output) # "Bare Metal"
                  THEN << Line("warn", "Detected virtualized SQL Server environment", <<>>),
                          Line("none", "Ensure vNUMA is exposed and balanced", <<>>),
                          Line("none", "Misaligned virtual sockets/cores", <<>>) >>
                  ELSE <<>>))

-----------------------------------------------------------------------------
(* NumaChecker.check_virtual_hardware *)

HardwareSources ==
    [kind : {"hardware"}, fail_at : {"none", "disk", "nic"},
     scsi : BOOLEAN, vmxnet3 : BOOLEAN]

check_virtual_hardware(src) ==
    LET header == <<Line("none", "VM Hardware Configuration Check", <<>>)>>
        failed == <<Line("error", "Error retrieving virtual hardware info", <<>>)>>
        disk == <<Line("none", "Disk Controllers", <<>>)>>
                \o (IF src.scsi
                    THEN <<Line("ok", "Disks are using SCSI interface", <<>>)>>
                    ELSE << Line("warn", "Disks may not be using SCSI interface", <<>>),
                            Line("none", "disk_output", <<>>) >>)
        nic == <<Line("none", "Network Adapters", <<>>)>>
               \o (IF src.vmxnet3
                   THEN <<Line("ok", "VMXNET3 network adapter detected", <<>>)>>
                   ELSE << Line("warn", "VMXNET3 not detected", <<>>),
                           Line("none", "nic_output", <<>>) >>)
    IN  IF src.fail_at = "disk" THEN Done(header \o failed)
        ELSE IF src.fail_at = "nic" THEN Done(header \o disk \o failed)
        ELSE Done(header \o disk \o nic)

-----------------------------------------------------------------------------
(* NumaChecker.analyze_sql_workload *)

top_n == 5
MaxSessions == 2
SessionIds == {51, 52}

SessionSeqs == UNION { [1..n -> SessionIds] : n \in 0..MaxSessions }

WorkloadSources ==
    [kind : {"workload"}, fail_at : {"none", "cursor", "requests", "grants"},
     requests : SessionSeqs, grants : SessionSeqs]

session_lines(id) ==
    << Line("none", "Session", <<id>>),
       Line("none", "Status", <<id>>),
       Line("none", "Command", <<id>>),
       Line("none", "CPU Time", <<id>>),
       Line("none", "Elapsed Time", <<id>>),
       Line("none", "SQL", <<id>>) >>

RECURSIVE request_lines(_)
request_lines(rows) ==
    IF rows = <<>> THEN <<>>
    ELSE session_lines(Head(rows)) \o request_lines(Tail(rows))

analyze_sql_workload(src) ==
    LET failed == <<Line("error", "Error analyzing SQL workload", <<>>)>>
        header == <<Line("none", "Active SQL Requests", <<top_n>>)>>
        rows == Take(src.requests, top_n)
        requests == IF rows = <<>>
                    THEN <<Line("ok", "No active long-running queries", <<>>)>>
                    ELSE request_lines(rows)
        grants_header == <<Line("none", "Memory Grants (if any)", <<>>)>>
        mem_rows == src.grants
        grants == IF mem_rows = <<>>
                  THEN <<Line("ok", "No memory grant pressure detected", <<>>)>>
                  ELSE [i \in DOMAIN mem_rows |->
                          Line("none", "Session waiting for memory", <<mem_rows[i]>>)]
    IN  IF src.fail_at = "cursor" THEN Done(failed)
        ELSE IF src.fail_at = "requests" THEN Done(header \o failed)
        ELSE IF src.fail_at = "grants"
        THEN Done(header \o requests \o grants_header \o failed)
        ELSE Done(header \o requests \o grants_header \o grants)

-----------------------------------------------------------------------------
(* A NumaChecker on a connection: construction and single calls *)

banner == Line("none", "Infrastructure Tuning Toolkit - Diagnostic Tool", <<>>)

\* NumaChecker.__init__ hands the banner to self.out.
CheckerInit ==
    /\ buffer = <<>>
    /\ console = <<>>
    /\ md_file = NoFile
    /\ json_file = NoFile
    /\ summary = NoSummary
    /\ last_call = "__init__"
    /\ prev_call = "__init__"
    /\ pc = "constructed"
    /\ out = <<banner>>
    /\ before = 0
    /\ called = "__init__"
    /\ raised = "none"
    /\ schedulers = NotFetched
    /\ memory_nodes = NotFetched
    /\ probe = [kind |-> "none"]
    /\ calls = <<>>

\* One check runs to its end: its lines follow the earlier ones, and the
\* caller goes on at next unless an exception left the check.
Invoke(name, result, sched, memn, src, next) ==
    /\ called' = name
    /\ before' = Len(out)
    /\ out' = out \o result.lines
    /\ raised' = result.raised
    /\ schedulers' = sched
    /\ memory_nodes' = memn
    /\ probe' = src
    /\ calls' = Append(calls, [check |-> name, first |-> Len(out) + 1,
                                last |-> Len(out) + Len(result.lines)])
    /\ pc' = IF result.raised = "none" THEN next ELSE "raised"
    /\ UNCHANGED logger_vars

Call_get_system_specs ==
    /\ pc = "constructed"
    /\ \E src \in SpecsSources :
        Invoke("get_system_specs", get_system_specs(src), NotFetched, NotFetched,
               src, "returned")

Call_validate_numa_layout ==
    /\ pc = "constructed"
    /\ \E sched \in SchedulerFetches(MaxSchedulers) :
        Invoke("validate_numa_layout", validate_numa_layout(sched), sched, NotFetched,
               [kind |-> "none"], "returned")

Call_validate_memory_alignment ==
    /\ pc = "constructed"
    /\ \E sched \in SchedulerFetches(MaxSchedulers),
          memn \in MemoryNodeFetches(MaxMemoryNodes) :
        Invoke("validate_memory_alignment", validate_memory_alignment(sched, memn),
               sched, memn, [kind |-> "none"], "returned")

Call_recommend_maxdop ==
    /\ pc = "constructed"
    /\ \E src \in MaxdopSources, sched \in SchedulerFetches(MaxSchedulers) :
        Invoke("recommend_maxdop", recommend_maxdop(src, sched), sched, NotFetched,
               src, "returned")

Call_validate_memory_config ==
    /\ pc = "constructed"
    /\ \E src \in MemorySources :
        Invoke("validate_memory_config", validate_memory_config(src), NotFetched,
               NotFetched, src, "returned")

Call_check_affinity_config ==
    /\ pc = "constructed"
    /\ \E sched \in SchedulerFetches(MaxSchedulers) :
        Invoke("check_affinity_config", check_affinity_config(sched), sched, NotFetched,
               [kind |-> "none"], "returned")

Call_check_socket_layout ==
    /\ pc = "constructed"
    /\ \E src \in SocketSources :
        Invoke("check_socket_layout", check_socket_layout(src), NotFetched, NotFetched,
               src, "returned")

Call_detect_virtual_environment ==
    /\ pc = "constructed"
    /\ \E src \in VirtualSources :
        Invoke("detect_virtual_environment", detect_virtual_environment(src),
               NotFetched, NotFetched, src, "returned")

Call_check_virtual_hardware ==
    /\ pc = "constructed"
    /\ \E src \in HardwareSources :
        Invoke("check_virtual_hardware", check_virtual_hardware(src), NotFetched,
               NotFetched, src, "returned")

Call_analyze_sql_workload ==
    /\ pc = "constructed"
    /\ \E src \in WorkloadSources :
        Invoke("analyze_sql_workload", analyze_sql_workload(src), NotFetched,
               NotFetched, src, "returned")

ChecksNext ==
    \/ Call_get_system_specs
    \/ Call_validate_numa_layout
    \/ Call_validate_memory_alignment
    \/ Call_recommend_maxdop
    \/ Call_validate_memory_config
    \/ Call_check_affinity_config
    \/ Call_check_socket_layout
    \/ Call_detect_virtual_environment
    \/ Call_check_virtual_hardware
    \/ Call_analyze_sql_workload

SpecChecks == CheckerInit /\ [][ChecksNext]_vars

-----------------------------------------------------------------------------
(* NumaChecker.run_all_diagnostics *)

\* What the sources deliver during a full run: each fetch may raise, return
\* nothing, or return one of a few server states.
RunSchedulerRows ==
    { << SchedulerRow(0, 1, "VISIBLE ONLINE", 0),
         SchedulerRow(1, 1, "VISIBLE ONLINE", 0),
         SchedulerRow(2, 0, "VISIBLE ONLINE", 1) >>,
      << SchedulerRow(0, 1, "VISIBLE ONLINE", NoParent),
         SchedulerRow(1, 1, "HIDDEN ONLINE", NoParent) >> }

RunSchedulerFetches == {Raises, Returns(<<>>)} \cup { Returns(r) : r \in RunSchedulerRows }

RunMemoryNodeFetches ==
    {Raises, Returns(<<>>), Returns(<<MemoryNodeRow(0), MemoryNodeRow(1)>>)}

RunMaxdopSources == { s \in MaxdopSources : s.value = 8 }

RunMemorySources ==
    { s \in MemorySources :
        /\ s.total_kb = 67108864
        /\ s.available_kb # None
        /\ s.fail_at \in {"none", "before_min", "after_max"}
        /\ s.min_row \in {1000, None}
        /\ s.max_row = 70000
        /\ s.has_mem_row }

RunSocketSources == { s \in SocketSources : s.sockets \in {<<>>, <<0>>, <<0, 1, 2>>} }

RunVirtualSources == { s \in VirtualSources : s.output \in {{}, {"VMware", "Hyper-V"}} }

RunHardwareSources == { s \in HardwareSources : s.scsi = s.vmxnet3 }

RunWorkloadSources ==
    { s \in WorkloadSources :
        /\ s.fail_at \in {"none", "cursor", "grants"}
        /\ s.requests \in {<<>>, <<51>>}
        /\ s.grants = s.requests }

Run_begin ==
    /\ pc = "constructed"
    /\ out' = Append(out, Line("none", "Running Full SQL Server + VM Diagnostics", <<>>))
    /\ before' = Len(out)
    /\ called' = "run_all_diagnostics"
    /\ pc' = "run:get_system_specs"
    /\ UNCHANGED <<raised, schedulers, memory_nodes, probe, calls, logger_vars>>

Run_get_system_specs ==
    /\ pc = "run:get_system_specs"
    /\ \E src \in SpecsSources :
        Invoke("get_system_specs", get_system_specs(src), NotFetched, NotFetched,
               src, "run:validate_numa_layout")

Run_validate_numa_layout ==
    /\ pc = "run:validate_numa_layout"
    /\ \E sched \in RunSchedulerFetches :
        Invoke("validate_numa_layout", validate_numa_layout(sched), sched, NotFetched,
               [kind |-> "none"], "run:validate_memory_alignment")

Run_validate_memory_alignment ==
    /\ pc = "run:validate_memory_alignment"
    /\ \E sched \in RunSchedulerFetches, memn \in RunMemoryNodeFetches :
        Invoke("validate_memory_alignment", validate_memory_alignment(sched, memn),
               sched, memn, [kind |-> "none"], "run:recommend_maxdop")

Run_recommend_maxdop ==
    /\ pc = "run:recommend_maxdop"
    /\ \E src \in RunMaxdopSources, sched \in RunSchedulerFetches :
        Invoke("recommend_maxdop", recommend_maxdop(src, sched), sched, NotFetched,
               src, "run:validate_memory_config")

Run_validate_memory_config ==
    /\ pc = "run:validate_memory_config"
    /\ \E src \in RunMemorySources :
        Invoke("validate_memory_config", validate_memory_config(src), NotFetched,
               NotFetched, src, "run:check_affinity_config")

Run_check_affinity_config_skips ==
    /\ pc = "run:check_affinity_config"
    /\ \E sched \in RunSchedulerFetches :
        Invoke("check_affinity_config", check_affinity_config(sched), sched, NotFetched,
               [kind |-> "none"], "run:check_socket_layout")

Run_check_affinity_config ==
    /\ pc = "run:check_affinity_config"
    /\ \E sched \in RunSchedulerFetches :
        Invoke("check_affinity_config", check_affinity_config(sched), sched, NotFetched,
               [kind |-> "none"], "run:get_system_specs again")

Run_get_system_specs_again ==
    /\ pc = "run:get_system_specs again"
    /\ \E src \in SpecsSources :
        Invoke("get_system_specs", get_system_specs(src), NotFetched, NotFetched,
               src, "run:check_socket_layout")

Run_check_socket_layout ==
    /\ pc = "run:check_socket_layout"
    /\ \E src \in RunSocketSources :
        Invoke("check_socket_layout", check_socket_layout(src), NotFetched, NotFetched,
               src, "run:detect_virtual_environment")

Run_detect_virtual_environment ==
    /\ pc = "run:detect_virtual_environment"
    /\ \E src \in RunVirtualSources :
        Invoke("detect_virtual_environment", detect_virtual_environment(src),
               NotFetched, NotFetched, src, "run:check_virtual_hardware")

Run_check_virtual_hardware ==
    /\ pc = "run:check_virtual_hardware"
    /\ \E src \in RunHardwareSources :
        Invoke("check_virtual_hardware", check_virtual_hardware(src), NotFetched,
               NotFetched, src, "run:analyze_sql_workload")

Run_analyze_sql_workload ==
    /\ pc = "run:analyze_sql_workload"
    /\ \E src \in RunWorkloadSources :
        Invoke("analyze_sql_workload", analyze_sql_workload(src), NotFetched,
               NotFetched, src, "run:complete")

completion == Line("ok", "Diagnostics complete", <<>>)

Run_complete ==
    /\ pc = "run:complete"
    /\ out' = Append(out, completion)
    /\ before' = Len(out)
    /\ called' = "run_all_diagnostics"
    /\ pc' = "returned"
    /\ UNCHANGED <<raised, schedulers, memory_nodes, probe, calls, logger_vars>>

FullNext ==
    \/ Run_begin
    \/ Run_get_system_specs
    \/ Run_validate_numa_layout
    \/ Run_validate_memory_alignment
    \/ Run_recommend_maxdop
    \/ Run_validate_memory_config
    \/ Run_check_affinity_config
    \/ Run_get_system_specs_again
    \/ Run_check_socket_layout
    \/ Run_detect_virtual_environment
    \/ Run_check_virtual_hardware
    \/ Run_analyze_sql_workload
    \/ Run_complete

SpecFull == CheckerInit /\ [][FullNext]_vars

-----------------------------------------------------------------------------
(* Claims about ReportLogger *)

\* The text the buffer holds when only the write calls are counted.
RECURSIVE Rendered(_)
Rendered(msgs) ==
    IF msgs = <<>> THEN <<>> ELSE Head(msgs) \o <<NL>> \o Rendered(Tail(msgs))

\* C2: right after export_json, the list under "report" of the parsed
\* document equals the sequence of messages passed to write, element for
\* element and in the same order.
C2_JsonRoundTripsMessages ==
    last_call = "export_json" =>
        json_load(json_file.content).report = console

\* C9: print_summary leaves the log unchanged, a second consecutive call
\* prints the same counts and the same highlighted issues as the first, and
\* what export and export_json write depends on the written messages only,
\* however many print_summary calls came before.
C9_SummaryIdempotentNonMutating ==
    /\ [][last_call' = "print_summary" =>
            /\ buffer' = buffer
            /\ (last_call = "print_summary" => summary' = summary)]_vars
    /\ [](last_call = "export" => md_file.content = Rendered(console))
    /\ [](last_call = "export_json" =>
            json_load(json_file.content).report = splitlines(Rendered(console)))

C9_Witness ==
    /\ prev_call = "print_summary"
    /\ last_call = "print_summary"
    /\ summary.printed
    /\ summary.has_issues
    /\ summary.successes > 0
    /\ md_file.exists
    /\ md_file.content = buffer


-----------------------------------------------------------------------------
(* Claims about single checks *)

\* The lines of the check that ran last.
CallLines == SubSeq(out, before + 1, Len(out))

CountText(text) == Cardinality({ i \in DOMAIN CallLines : CallLines[i].text = text })
HasText(text) == CountText(text) > 0
WarnLines == { i \in DOMAIN CallLines : CallLines[i].marker = "warn" }
ErrorLines == { i \in DOMAIN CallLines : CallLines[i].marker = "error" }

\* The parent nodes the scheduler records expose, and the memory nodes.
ExposedNodes(rows) ==
    { rows[i].parent_node_id : i \in { j \in DOMAIN rows : HasParent(rows[j]) } }
MemoryNodeIds(rows) == { rows[i].memory_node_id : i \in DOMAIN rows }

BothFetched == ~schedulers.raises /\ ~memory_nodes.raises

\* C3: when the parent nodes the schedulers expose are exactly the memory
\* nodes (and there is at least one), the memory alignment check emits no
\* warning line.
C3_AlignedSetsGiveNoWarning ==
    ( /\ called = "validate_memory_alignment"
      /\ BothFetched
      /\ ExposedNodes(schedulers.rows) # {}
      /\ ExposedNodes(schedulers.rows) = MemoryNodeIds(memory_nodes.rows) )
    => WarnLines = {}

\* The report the claim describes for one difference.
DifferenceReport(diff, warning, fine) ==
    IF diff # {}
    THEN <<Line("warn", warning, <<>>)>>
         \o [i \in 1..Cardinality(diff) |-> Line("none", "Node", <<sorted(diff)[i]>>)]
    ELSE <<Line("ok", fine, <<>>)>>

\* C4: when some scheduler record exposes parent_node_id the memory alignment
\* check reports both differences, each with a warning and the sorted nodes
\* or with one ok line; when none does it emits the single warning that the
\* layout cannot be fully validated.
C4_BothDifferencesReported ==
    (called = "validate_memory_alignment" /\ BothFetched) =>
        LET sn == ExposedNodes(schedulers.rows)
            mn == MemoryNodeIds(memory_nodes.rows)
        IN  IF sn # {}
            THEN CallLines =
                   DifferenceReport(sn \ mn,
                       "NUMA nodes with schedulers but no memory assigned",
                       "All scheduler nodes have memory assigned")
                   \o DifferenceReport(mn \ sn,
                       "Memory nodes present without schedulers",
                       "All memory nodes align with scheduler nodes")
            ELSE CallLines = <<Line("warn", "NUMA layout cannot be fully validated", <<>>)>>

\* C5: recommend_maxdop counts the distinct parent nodes of the records that
\* expose one, falls back to 1 (with the notice) only when no record exposes
\* one, and recommends twice the count when the count exceeds 1, else 8.
C5_MaxdopFromDistinctNodes ==
    (called = "recommend_maxdop" /\ ~schedulers.raises) =>
        LET nodes == ExposedNodes(schedulers.rows)
            node_count == IF nodes = {} THEN 1 ELSE Cardinality(nodes)
            expected == IF node_count > 1 THEN node_count * 2 ELSE 8
        IN  /\ HasText("Falling back to 1 NUMA node") <=> (nodes = {})
            /\ CountText("Recommended maxDOP") = 1
            /\ \A i \in DOMAIN CallLines :
                 CallLines[i].text = "Recommended maxDOP" => CallLines[i].args = <<expected>>

\* The memory configuration validate_memory_config fetched.
FetchedMem == get_memory_config(probe).mem
Absent(key) == key \notin DOMAIN FetchedMem \/ FetchedMem[key] = None
AllPresent == \A i \in 1..4 : ~Absent(DetailKeys[i])

JudgmentTexts ==
    { "SQL Max Memory exceeds physical RAM", "SQL Max Memory fits within physical RAM",
      "SQL Min Memory is set very low compared to Max",
      "SQL Min/Max memory ratio looks reasonable" }

\* C6: when one of the four memory facts is absent, validate_memory_config
\* emits an error line and nothing of the validation (no detail line, no
\* judgment), and no exception leaves it.
C6_AbsentFactStopsValidation ==
    (called = "validate_memory_config" /\ ~AllPresent) =>
        /\ raised = "none"
        /\ ErrorLines # {}
        /\ \A i \in DOMAIN CallLines :
             /\ CallLines[i].text \notin JudgmentTexts
             /\ \A k \in 1..4 : CallLines[i].text # DetailKeys[k]

\* The cpu ids of the offline records, in record order.
OfflineCpus(rows) ==
    LET off == SelectSeq(rows, LAMBDA r : r.is_online = 0)
    IN  [i \in DOMAIN off |-> off[i].cpu_id]

SchedulersFetched == ~schedulers.raises /\ schedulers.rows # <<>>

\* C7: on a non-empty scheduler result validate_numa_layout emits the offline
\* warning exactly when some record is offline, naming the cpu id of every
\* offline record, and the all-online ok line otherwise.
C7_OfflineWarningNamesAllOffline ==
    (called = "validate_numa_layout" /\ SchedulersFetched) =>
        LET offline == OfflineCpus(schedulers.rows)
        IN  /\ HasText("Offline schedulers detected") <=> (offline # <<>>)
            /\ HasText("All schedulers are online") <=> (offline = <<>>)
            /\ \A i \in DOMAIN CallLines :
                 CallLines[i].text = "Offline schedulers detected" =>
                     CallLines[i].args = offline

\* The number of online records of each parent node.
OnlinePerNode(rows) ==
    [n \in ExposedNodes(rows) |->
        Cardinality({ i \in DOMAIN rows :
                        HasParent(rows[i]) /\ rows[i].parent_node_id = n
                        /\ rows[i].is_online = 1 })]

Uniform(rows) ==
    Cardinality({ OnlinePerNode(rows)[n] : n \in ExposedNodes(rows) }) <= 1

\* C8: validate_numa_layout emits the unbalanced warning whenever the online
\* CPU counts differ between the parent nodes and the balanced ok line only
\* when they are uniform; one balance judgment and one online-ness judgment
\* are emitted per run.
C8_UnbalancedCountsWarned ==
    (called = "validate_numa_layout" /\ SchedulersFetched) =>
        /\ HasText("NUMA nodes have unbalanced CPU counts") <=> ~Uniform(schedulers.rows)
        /\ HasText("NUMA CPU distribution appears balanced") <=> Uniform(schedulers.rows)
        /\ CountText("NUMA nodes have unbalanced CPU counts")
             + CountText("NUMA CPU distribution appears balanced") = 1
        /\ CountText("Offline schedulers detected")
             + CountText("All schedulers are online") = 1

Bit(b) == IF b THEN 1 ELSE 0

\* C10: with all four memory facts present validate_memory_config emits one
\* judgment per rule: the OS-starvation warning iff max > total, else its ok
\* line, and the ramp-up warning iff 4 * min < max, else its ok line; what
\* the first rule finds has no part in the second.
C10_MemoryRulesIndependent ==
    (called = "validate_memory_config" /\ AllPresent) =>
        LET total == FetchedMem["total_physical_memory_mb"]
            min_mem == FetchedMem["min_server_memory_mb"]
            max_mem == FetchedMem["max_server_memory_mb"]
        IN  /\ raised = "none"
            /\ CountText("SQL Max Memory exceeds physical RAM") = Bit(max_mem > total)
            /\ CountText("SQL Max Memory fits within physical RAM") = Bit(~(max_mem > total))
            /\ CountText("SQL Min Memory is set very low compared to Max")
                 = Bit(4 * min_mem < max_mem)
            /\ CountText("SQL Min/Max memory ratio looks reasonable")
                 = Bit(~(4 * min_mem < max_mem))

\* The scenario {total: 65536, max: 70000, min: 1000}: both warnings.
C10_Witness ==
    /\ called = "validate_memory_config"
    /\ AllPresent
    /\ FetchedMem["total_physical_memory_mb"] = 65536
    /\ FetchedMem["max_server_memory_mb"] = 70000
    /\ FetchedMem["min_server_memory_mb"] = 1000
    /\ HasText("SQL Max Memory exceeds physical RAM")
    /\ HasText("SQL Min Memory is set very low compared to Max")


-----------------------------------------------------------------------------
(* Claims about the full run *)

\* A data access of the check that ran last failed: a fetch raised, or it
\* returned nothing or only a part.
DataAccessFailed ==
    \/ schedulers.fetched /\ (schedulers.raises \/ schedulers.rows = <<>>)
    \/ memory_nodes.fetched /\ (memory_nodes.raises \/ memory_nodes.rows = <<>>)
    \/ probe.kind \in {"specs", "maxdop"} /\ (probe.raises \/ ~probe.has_row)
    \/ probe.kind = "memory" /\ (probe.fail_at # "none" \/ ~AllPresent)
    \/ probe.kind \in {"socket", "virtual"} /\ probe.raises
    \/ probe.kind \in {"hardware", "workload"} /\ probe.fail_at # "none"

RunChecks ==
    { "get_system_specs", "validate_numa_layout", "validate_memory_alignment",
      "recommend_maxdop", "validate_memory_config", "check_affinity_config",
      "check_socket_layout", "detect_virtual_environment", "check_virtual_hardware",
      "analyze_sql_workload" }

\* C1: in a full run no exception leaves a check, a check whose data access
\* failed reports it with one error line, and the run goes on to the
\* completion line.
C1_FailuresIsolated ==
    /\ raised = "none"
    /\ pc # "raised"
    /\ (called \in RunChecks /\ DataAccessFailed) => Cardinality(ErrorLines) = 1
    /\ pc = "returned" => out[Len(out)] = completion


\* The order in which run_all_diagnostics is said to invoke the checks.
RunOrder ==
    << "get_system_specs", "validate_numa_layout", "validate_memory_alignment",
       "recommend_maxdop", "validate_memory_config", "check_affinity_config",
       "get_system_specs", "check_socket_layout", "detect_virtual_environment",
       "check_virtual_hardware", "analyze_sql_workload" >>

\* C11: a full run enters the checks in the fixed order (system specs twice,
\* every other check once); it stops before the end only when a data access
\* of the check it is in failed; the lines of each check follow the lines of
\* the checks before it without a gap, and when the run returns all eleven
\* invocations were made and the completion line is the last line.
C11_FixedOrderOfChecks ==
    /\ Len(calls) <= Len(RunOrder)
    /\ \A i \in DOMAIN calls :
         /\ calls[i].check = RunOrder[i]
         /\ calls[i].first = (IF i = 1 THEN 3 ELSE calls[i - 1].last + 1)
         /\ calls[i].last >= calls[i].first - 1
         /\ calls[i].last <= Len(out)
    /\ pc = "raised" => DataAccessFailed
    /\ pc = "returned" =>
         /\ Len(calls) = Len(RunOrder)
         /\ calls[Len(calls)].last = Len(out) - 1
         /\ out[Len(out)] = completion

\* A full run that returned, with the scenario's schedulers in the topology
\* check and no error line in the whole report.
C11_Witness ==
    /\ pc = "returned"
    /\ Len(calls) = 11
    /\ \A i \in DOMAIN out : out[i].marker # "error"
    /\ \E i \in calls[2].first .. calls[2].last :
         out[i] = Line("warn", "Offline schedulers detected", <<2>>)
    /\ calls[3].last = calls[3].first - 1
    /\ calls[11].last > calls[11].first


-----------------------------------------------------------------------------
(* More claims about ReportLogger *)

IsPrefix(s, t) == Len(s) <= Len(t) /\ SubSeq(t, 1, Len(s)) = s

\* C12: the log is the concatenation, in call order, of the messages passed
\* to write, each ended by a newline; a write extends the previous content,
\* which stays a prefix, by its message and a newline; export, export_json
\* and print_summary leave the log as it is.
C12_LogAppendOnly ==
    /\ [](buffer = Rendered(console))
    /\ [][ /\ IsPrefix(buffer, buffer')
           /\ (last_call' = "write" =>
                 buffer' = buffer \o console'[Len(console')] \o <<NL>>)
           /\ (last_call' # "write" => buffer' = buffer) ]_vars

\* Two different messages written, with every read-only call made in
\* between: the exported file is the log as it was before the second write.
C12_Witness ==
    /\ Len(console) = 2
    /\ console[1] # console[2]
    /\ console[1] # <<>>
    /\ last_call = "write"
    /\ md_file.exists
    /\ json_file.exists
    /\ summary.printed
    /\ md_file.content = console[1] \o <<NL>>
    /\ md_file.content # buffer


\* The lines of the log, and the positions of those that carry a marker.
LogLines == splitlines(buffer)
SuccessPositions ==
    { i \in DOMAIN LogLines : Contains(LogLines[i], SuccessMarker) }
WarningPositions ==
    { i \in DOMAIN LogLines :
        Contains(LogLines[i], WarningMarker) \/ Contains(LogLines[i], ErrorMarker) }

\* The position of the k-th warning-or-error line.
WarningPosition(k) ==
    CHOOSE i \in WarningPositions :
        Cardinality({ j \in WarningPositions : j < i }) = k - 1

\* C13: right after print_summary, the success count is the number of log
\* lines with the success marker, the warning count the number of log lines
\* with the warning or the error marker (a line with both kinds is in both
\* counts), and the highlighted issues are the first min(5, warning count)
\* warning-or-error lines in log order, printed only when there is one.
C13_SummaryClassifiesByMarker ==
    last_call = "print_summary" =>
        LET n == IF Cardinality(WarningPositions) < 5
                 THEN Cardinality(WarningPositions) ELSE 5
        IN  /\ summary.successes = Cardinality(SuccessPositions)
            /\ summary.warnings = Cardinality(WarningPositions)
            /\ summary.has_issues <=> (WarningPositions # {})
            /\ Len(summary.highlighted) = n
            /\ \A k \in 1..n :
                 summary.highlighted[k] = LogLines[WarningPosition(k)]

\* Six warning-or-error lines, two of them also successes: five highlighted.
C13_Witness ==
    /\ last_call = "print_summary"
    /\ summary.warnings = 6
    /\ summary.successes = 2
    /\ SuccessPositions \subseteq WarningPositions
    /\ Len(summary.highlighted) = 5
    /\ summary.highlighted[4] = summary.highlighted[1]
    /\ summary.highlighted[5] # LogLines[6]

=============================================================================
